---- MODULE Spec2Model ----
(***************************************************************************)
(* Model of src/lib/scrape.ts: the cached, de-duplicated, rate-limited     *)
(* page fetcher that sits in front of a shared remote browser connection.  *)
(*                                                                         *)
(* JavaScript runs one continuation at a time, so every action below is    *)
(* one run-to-completion segment of the code: from the call (or from the   *)
(* resumption of an await on a timer or on a remote browser operation) up  *)
(* to the next such await.  Promise reactions that follow a settlement     *)
(* without any timer or I/O in between (the finally of the request         *)
(* wrapper, the delivery to the callers awaiting the shared promise) are   *)
(* part of the segment that settles the promise.                           *)
(***************************************************************************)
EXTENDS Integers, Sequences, FiniteSets, TLC

\* ------------------------------------------------------------------ bounds
MaxCalls == 2          \* scrape() calls issued in one behaviour
NumUrls  == 2          \* distinct URLs the callers ask for
MaxTicks == 1          \* clock advances in one behaviour
MaxDisconnects == 1    \* connections the remote side drops in one behaviour

\* ------------------------------------------------- constants of scrape.ts
CACHE_DURATION       == 10 * 60 * 1000
MAX_CACHE_SIZE       == 50
MIN_REQUEST_INTERVAL == 1500

ERR_RATE_LIMIT == "Rate limit exceeded. Please wait and try again."
ERR_TIMED_OUT  == "Request timed out. The site may be blocking automated access."
ERR_GENERIC    == "Failed to scrape the webpage"
ERR_NO_TOKEN   == "BROWSERLESS_TOKEN is required in environment variables."
ERR_CONNECT    == "Failed to connect to browser: "
ERR_REMOTE     == "remote browser operation failed"

\* ------------------------------------------------------------ environment
CallIds == 1..MaxCalls
Urls    == 1..NumUrls

\* Date.now() at process start: far beyond both intervals, as an epoch
\* timestamp in milliseconds is.
Epoch == 2 * CACHE_DURATION

HalfInterval == MIN_REQUEST_INTERVAL \div 2

\* The clock advances in steps of the rate-limit interval.
TickSteps == {MIN_REQUEST_INTERVAL}

\* What page.content() returns in call c.  The program never looks into the
\* markup, it stores it and hands it on: every fetch is served markup of its
\* own (never the empty string), so that markup handed to the wrong caller
\* or kept from an older fetch shows.
content(c) == "<html>" \o ToString(c) \o "</html>"

\* The markup served to the calls of a warm start.
WarmHtml == "<html></html>"


\* The substrings of an error message that the error translation looks for.
\* A thrown Error is modelled by its text and the set of those substrings
\* that occur in its message.
Signatures == {"429", "Timeout"}
Thrown     == [text : {ERR_REMOTE}, has : {{}, {"Timeout"}}]

NULL == "null"

VARIABLES
    env,              \* process.env: is BROWSERLESS_TOKEN set?
    clock,            \* Date.now()
    ticks,            \* number of clock advances so far
    browserInstance,  \* 0 (null) or the id of a connection
    conn,             \* connection objects, one per connectOverCDP call
    lastRequestTime,
    cache,            \* Map url -> {html, timestamp}, in insertion order
    pendingRequests,  \* Map url -> promise, in insertion order
    calls,            \* the scrape() invocations
    fetched,          \* per URL, the latest fetch that returned markup:
                      \* the markup and when it was cached (history)
    shutdown,         \* the closeBrowser() invocation: its position and the
                      \* connection whose close() it awaits
    parse             \* the extraction under way in parse.ts: its position,
                      \* its input and what it has returned

vars == <<env, clock, ticks, browserInstance, conn, lastRequestTime, cache,
          pendingRequests, calls, fetched, shutdown, parse>>

\* ------------------------------------------------------- JavaScript Map
\* A Map is a sequence of [key, val] entries in insertion order.
MapHas(m, k) == \E i \in 1..Len(m) : m[i].key = k

MapIndex(m, k) == CHOOSE i \in 1..Len(m) : m[i].key = k

MapGet(m, k) == m[MapIndex(m, k)].val

\* Map.prototype.set: an existing key keeps its position.
MapSet(m, k, v) ==
    IF MapHas(m, k)
    THEN [m EXCEPT ![MapIndex(m, k)] = [key |-> k, val |-> v]]
    ELSE Append(m, [key |-> k, val |-> v])

MapDelete(m, k) ==
    IF MapHas(m, k)
    THEN LET i == MapIndex(m, k)
         IN  SubSeq(m, 1, i - 1) \o SubSeq(m, i + 1, Len(m))
    ELSE m

MapKeys(m) == {m[i].key : i \in 1..Len(m)}

\* ----------------------------------------------------------------- cache
\* A lifetime test that takes CACHE_DURATION for seconds.
getCachedResultSeconds(c, url, now) ==
    IF MapHas(c, url) /\ now - MapGet(c, url).timestamp < 10 * 60
    THEN MapGet(c, url).html
    ELSE NULL

\* getCachedResult: the cached markup, or null.
getCachedResult(c, url, now) ==
    IF MapHas(c, url) /\ now - MapGet(c, url).timestamp < CACHE_DURATION
    THEN MapGet(c, url).html
    ELSE NULL

\* A scrape that takes no cached result for one.
TruthyNever(x) == FALSE

\* JavaScript truthiness of a string-or-null value.
Truthy(x) == x # NULL /\ x # ""

\* An eviction that takes the first key of the Map for the oldest.
OldestIndexFirstInserted(c) == 1

\* entries.sort((a, b) => a[1].timestamp - b[1].timestamp)[0]: the sort is
\* stable, so the first entry is the earliest inserted one among those with
\* the smallest timestamp.
OldestIndex(c) ==
    CHOOSE i \in 1..Len(c) :
        \A j \in 1..Len(c) :
            \/ c[i].val.timestamp < c[j].val.timestamp
            \/ (c[i].val.timestamp = c[j].val.timestamp /\ i <= j)

setCachedResult(c, url, html, now) ==
    LET c1 == MapSet(c, url, [html |-> html, timestamp |-> now])
    IN  IF Len(c1) > MAX_CACHE_SIZE
        THEN MapDelete(c1, c1[OldestIndex(c1)].key)
        ELSE c1

\* ---------------------------------------------------------- rate limiter
\* A rate limiter that never sleeps.
waitTimeNone(now, last) == 0

\* waitForRateLimit, up to its await: the delay to sleep, 0 for none.
waitTime(now, last) ==
    IF now - last < MIN_REQUEST_INTERVAL
    THEN MIN_REQUEST_INTERVAL - (now - last)
    ELSE 0

\* ------------------------------------------------------ error translation
includes(err, s) == s \in err.has

\* The catch block of scrapeInternal.
translateError(err) ==
    IF includes(err, "429") THEN ERR_RATE_LIMIT
    ELSE IF includes(err, "Timeout") THEN ERR_TIMED_OUT
    ELSE ERR_GENERIC

\* getBrowser's errors.
TokenError == [text |-> ERR_NO_TOKEN, has |-> {}]

ConnectError(inner) == [text |-> ERR_CONNECT, has |-> inner.has]

\* --------------------------------------------------------------- promises
Pending      == [state |-> "pending",   value |-> NULL]
Fulfilled(v) == [state |-> "fulfilled", value |-> v]
Rejected(v)  == [state |-> "rejected",  value |-> v]

\* ------------------------------------------------------------------ calls
NewCall ==
    [pc        |-> "init",   \* position of the invocation
     url       |-> 0,
     mode      |-> "none",   \* served from "cache", by "dedup" or by own "fetch"
     promise   |-> 0,        \* the request promise the caller holds (0: none)
     outcome   |-> Pending,  \* state of the request promise this call created
     result    |-> Pending,  \* what the caller of scrape() received
     wakeAt    |-> 0,        \* when the rate limiter's timer is due
     browser   |-> 0,        \* scrapeInternal's local `browser`
     page      |-> "none",   \* scrapeInternal's local `page`
     ret       |-> Pending,  \* what scrapeInternal is about to return or throw
     wrote     |-> FALSE,    \* setCachedResult(url, ...) ran in this call
     wroteAt   |-> 0]        \* the timestamp it stored, until the call settles

isConnected(k) == conn[k] = "live"

NoFetch == [html |-> NULL, at |-> 0]

\* closeBrowser has not been called.
NoShutdown == [pc |-> "idle", target |-> 0]

\* No extraction has been started.
NoParse == [pc |-> "idle"]

\* The calls whose own fetch is under way.
InFlight == {c \in CallIds : calls[c].mode = "fetch" /\ calls[c].pc # "done"}

Init ==
    /\ env \in [token : BOOLEAN]
    /\ clock = Epoch
    /\ ticks = 0
    /\ browserInstance = 0
    /\ conn = [k \in CallIds |-> "none"]
    /\ lastRequestTime = 0
    /\ cache = << >>
    /\ pendingRequests = << >>
    /\ calls = [c \in CallIds |-> NewCall]
    /\ shutdown = NoShutdown
    /\ parse = NoParse
    /\ fetched = [u \in Urls |-> NoFetch]


\* A later point of the same process: the cache is full.  Calls that the
\* behaviour does not follow any further have fetched MAX_CACHE_SIZE URLs,
\* one every MIN_REQUEST_INTERVAL: a background URL first, URL 1 next, then
\* the other background URLs; the first one, expired since, was fetched
\* again at the end (Map.set kept its place in the iteration order).  The
\* remote side has dropped the connection since.  URL 1 is the oldest entry,
\* one clock step away from the end of its lifetime.
WarmOldest == Epoch - CACHE_DURATION + MIN_REQUEST_INTERVAL

WarmStamp(i) == WarmOldest + i * MIN_REQUEST_INTERVAL

\* The key of the i-th background URL.
WarmKey(i) == NumUrls + i

WarmEntry(k, stamp) ==
    [key |-> k, val |-> [html |-> WarmHtml, timestamp |-> stamp]]

WarmCache ==
    <<WarmEntry(WarmKey(1), WarmStamp(MAX_CACHE_SIZE - 1)),
      WarmEntry(1, WarmOldest)>> \o
    [i \in 1..(MAX_CACHE_SIZE - 2) |-> WarmEntry(WarmKey(i + 1), WarmStamp(i))]

\* page.waitForTimeout(2000) and page.waitForTimeout(1000) separate a fetch's
\* release from its cache write.
WarmLag == 2000 + 1000

InitWarm ==
    /\ env \in [token : {TRUE}]
    /\ clock = Epoch
    /\ ticks = 0
    /\ browserInstance = 0
    /\ conn = [k \in CallIds |-> "none"]
    /\ pendingRequests = << >>
    /\ calls = [c \in CallIds |-> NewCall]
    /\ shutdown = NoShutdown
    /\ parse = NoParse
    /\ cache = WarmCache
    /\ lastRequestTime = WarmStamp(MAX_CACHE_SIZE - 1) - WarmLag
    /\ fetched = [u \in Urls |->
          IF u = 1 THEN [html |-> WarmHtml, at |-> WarmOldest] ELSE NoFetch]

\* Another later point: a call that the behaviour does not follow any
\* further was released by the rate limiter HalfInterval ago and failed in
\* getBrowser, so nothing is cached and no connection exists.
InitRecent ==
    /\ env \in [token : {TRUE}]
    /\ clock = Epoch
    /\ ticks = 0
    /\ browserInstance = 0
    /\ conn = [k \in CallIds |-> "none"]
    /\ pendingRequests = << >>
    /\ calls = [c \in CallIds |-> NewCall]
    /\ shutdown = NoShutdown
    /\ parse = NoParse
    /\ cache = << >>
    /\ lastRequestTime = Epoch - HalfInterval
    /\ fetched = [u \in Urls |-> NoFetch]

\* ------------------------------------------------------------ settlement
\* A settlement that reaches the caller that created the promise only.
SettleOwnerOnly(cs, c, o) ==
    [d \in CallIds |->
        IF d = c
        THEN [cs[d] EXCEPT !.pc = "done", !.outcome = o, !.result = o,
                           !.wakeAt = 0, !.browser = 0, !.ret = Pending,
                           !.wroteAt = 0]
        ELSE cs[d]]

\* The request promise of call c settles with outcome o: the callers that
\* hold it (the call that created it and the de-duplicated ones) receive o.
Settle(cs, c, o) ==
    [d \in CallIds |->
        IF d = c
        THEN [cs[d] EXCEPT !.pc = "done", !.outcome = o, !.result = o,
                           !.wakeAt = 0, !.browser = 0, !.ret = Pending,
                           !.wroteAt = 0]
        ELSE IF cs[d].promise = c /\ cs[d].pc = "awaiting"
        THEN [cs[d] EXCEPT !.pc = "done", !.result = o]
        ELSE cs[d]]

\* A request wrapper that removes the pending entry on success only.
FailWithoutPageKeepsPending(cs, pr, c, err) ==
    /\ calls' = Settle(cs, c, Rejected(translateError(err)))
    /\ pendingRequests' = pr

\* scrapeInternal throws before a page exists: the catch block translates
\* the error, the finally block has no page to close, and the finally of
\* the request wrapper removes the pending entry before the promise rejects;
\* cs and pr are calls and pendingRequests as the step found or made them.
FailWithoutPage(cs, pr, c, err) ==
    /\ calls' = Settle(cs, c, Rejected(translateError(err)))
    /\ pendingRequests' = MapDelete(pr, cs[c].url)

\* ------------------------------------------------------------- getBrowser
\* The request wrapper resumes after waitForRateLimit and calls
\* scrapeInternal, which calls getBrowser; cs is calls after the rate
\* limiter's update, pr is pendingRequests with the entry of c.
EnterScrapeInternal(c, cs, pr) ==
    IF ~env.token
    THEN /\ FailWithoutPage(cs, pr, c, TokenError)
         /\ UNCHANGED <<browserInstance, conn>>
    ELSE IF browserInstance = 0 \/ ~isConnected(browserInstance)
    THEN /\ calls' = [cs EXCEPT ![c].pc = "connecting"]
         /\ conn' = [conn EXCEPT ![c] = "connecting"]
         /\ pendingRequests' = pr
         /\ UNCHANGED browserInstance
    ELSE /\ calls' = [cs EXCEPT ![c].pc = "page",
                                ![c].browser = browserInstance]
         /\ pendingRequests' = pr
         /\ UNCHANGED <<browserInstance, conn>>

\* ----------------------------------------------------------------- scrape
\* A scrape that never finds a pending request.
existingRequestNever(m, u) == 0

\* pendingRequests.get(url): the promise registered for url, 0 for undefined.
existingRequest(m, u) == IF MapHas(m, u) THEN MapGet(m, u) ELSE 0

\* scrape(url), up to the first await that waits for a timer or for the
\* remote browser.  When waitForRateLimit does not sleep, the wrapper resumes
\* in a microtask: scrape has registered the promise and returned, and no
\* other handler runs before the wrapper reaches getBrowser.
Scrape(c, u) ==
    /\ calls[c].pc = "init"
    /\ \A d \in 1..(c - 1) : calls[d].pc # "init"
    /\ \A v \in 1..(u - 1) :
           fetched[v] # NoFetch \/ \E d \in CallIds : calls[d].url = v
    /\ LET cachedResult == getCachedResult(cache, u, clock)
           w  == waitTime(clock, lastRequestTime)
           me == [calls[c] EXCEPT !.url = u]
           pr == MapSet(pendingRequests, u, c)
       IN  IF Truthy(cachedResult)
           THEN /\ calls' = [calls EXCEPT ![c] =
                       [me EXCEPT !.pc = "done", !.mode = "cache",
                                  !.result = Fulfilled(cachedResult)]]
                /\ UNCHANGED <<lastRequestTime, pendingRequests,
                               browserInstance, conn>>
           ELSE IF existingRequest(pendingRequests, u) # 0
           THEN /\ calls' = [calls EXCEPT ![c] =
                       [me EXCEPT !.pc = "awaiting", !.mode = "dedup",
                                  !.promise = existingRequest(pendingRequests, u)]]
                /\ UNCHANGED <<lastRequestTime, pendingRequests,
                               browserInstance, conn>>
           ELSE IF w > 0
           THEN /\ calls' = [calls EXCEPT ![c] =
                       [me EXCEPT !.pc = "rlSleep", !.mode = "fetch",
                                  !.promise = c, !.wakeAt = clock + w]]
                /\ pendingRequests' = pr
                /\ UNCHANGED <<lastRequestTime, browserInstance, conn>>
           ELSE /\ lastRequestTime' = clock
                /\ EnterScrapeInternal(c,
                       [calls EXCEPT ![c] =
                           [me EXCEPT !.mode = "fetch", !.promise = c]],
                       pr)
    /\ UNCHANGED <<parse, shutdown, fetched, env, clock, ticks, cache>>

\* The timer of waitForRateLimit fires (never early, possibly late).
RateLimitWake(c) ==
    /\ calls[c].pc = "rlSleep"
    /\ clock >= calls[c].wakeAt
    /\ lastRequestTime' = clock
    /\ EnterScrapeInternal(c, calls, pendingRequests)
    /\ UNCHANGED <<parse, shutdown, fetched, env, clock, ticks, cache>>

\* chromium.connectOverCDP resolves.
ConnectOK(c) ==
    /\ calls[c].pc = "connecting"
    /\ conn' = [conn EXCEPT ![c] = "live"]
    /\ browserInstance' = c
    /\ calls' = [calls EXCEPT ![c].pc = "page", ![c].browser = c]
    /\ UNCHANGED <<parse, shutdown, fetched, env, clock, ticks, lastRequestTime, cache, pendingRequests>>

\* chromium.connectOverCDP rejects.
ConnectFail(c, inner) ==
    /\ calls[c].pc = "connecting"
    /\ conn' = [conn EXCEPT ![c] = "failed"]
    /\ browserInstance' = 0
    /\ FailWithoutPage(calls, pendingRequests, c, ConnectError(inner))
    /\ UNCHANGED <<parse, shutdown, fetched, env, clock, ticks, lastRequestTime, cache>>

\* A connection whose 'disconnected' handler was never registered.
DisconnectKeepsHandle(k) ==
    /\ conn[k] = "live"
    /\ Cardinality({j \in CallIds : conn[j] = "dead"}) < MaxDisconnects
    /\ conn' = [conn EXCEPT ![k] = "dead"]
    /\ UNCHANGED <<parse, shutdown, fetched, env, clock, ticks, browserInstance, lastRequestTime, cache,
                   pendingRequests, calls>>

\* The 'disconnected' handler of connection k.
Disconnect(k) ==
    /\ conn[k] = "live"
    /\ Cardinality({j \in CallIds : conn[j] = "dead"}) < MaxDisconnects
    /\ conn' = [conn EXCEPT ![k] = "dead"]
    /\ browserInstance' = 0
    /\ UNCHANGED <<parse, shutdown, fetched, env, clock, ticks, lastRequestTime, cache, pendingRequests,
                   calls>>

\* --------------------------------------------------------- scrapeInternal
\* The awaited operations from browser.newPage() to page.content() touch
\* nothing but the connection they run on and the page, so they are one
\* step that ends in one of three ways.

\* browser.newPage() rejects: page stays undefined.
NewPageFail(c, err) ==
    /\ calls[c].pc = "page"
    /\ FailWithoutPage(calls, pendingRequests, c, err)
    /\ UNCHANGED <<parse, shutdown, fetched, env, clock, ticks, browserInstance, conn, lastRequestTime,
                   cache>>

\* All of them up to and including page.content() resolve (waitForSelector
\* and the cookie probe may also reject: both are wrapped in try/catch): the
\* markup is cached and the finally block invokes page.close().  The
\* process runs with NODE_ENV other than 'development', so the debug copy
\* is not written.
\* A scrapeInternal that returns the markup without caching it first.
ContentOKWithoutCaching(c) ==
    /\ calls[c].pc = "page"
    /\ isConnected(calls[c].browser)
    /\ calls' = [calls EXCEPT
           ![c].pc = "closing",
           ![c].page = "open",
           ![c].ret = Fulfilled(content(c))]
    /\ UNCHANGED <<parse, shutdown, fetched, env, clock, ticks,
                   browserInstance, conn, lastRequestTime, pendingRequests,
                   cache>>

ContentOK(c) ==
    /\ calls[c].pc = "page"
    /\ isConnected(calls[c].browser)
    /\ cache' = setCachedResult(cache, calls[c].url, content(c), clock)
    /\ calls' = [calls EXCEPT
           ![c].pc = "closing",
           ![c].page = "open",
           ![c].wrote = TRUE,
           ![c].wroteAt = clock,
           ![c].ret = Fulfilled(content(c))]
    /\ UNCHANGED <<parse, shutdown, fetched, env, clock, ticks, browserInstance, conn, lastRequestTime,
                   pendingRequests>>

\* A scrapeInternal without the finally block: a failed page operation
\* leaves the function at once.
PageOpFailNoClose(c, err) ==
    /\ calls[c].pc = "page"
    /\ calls' = Settle([calls EXCEPT ![c].page = "open"], c,
                       Rejected(translateError(err)))
    /\ pendingRequests' = MapDelete(pendingRequests, calls[c].url)
    /\ UNCHANGED <<parse, shutdown, fetched, env, clock, ticks, browserInstance, conn,
                   lastRequestTime, cache>>

\* The page was opened and one of the awaited page operations outside the
\* inner try blocks (setExtraHTTPHeaders, setViewportSize, page.goto,
\* waitForTimeout, page.content) rejects: the catch block translates the
\* error and the finally block invokes page.close().
PageOpFail(c, err) ==
    /\ calls[c].pc = "page"
    /\ calls' = [calls EXCEPT ![c].pc = "closing",
                              ![c].page = "open",
                              ![c].ret = Rejected(translateError(err))]
    /\ UNCHANGED <<parse, shutdown, fetched, env, clock, ticks, browserInstance, conn, lastRequestTime,
                   cache, pendingRequests>>

\* page.close() resolves; scrapeInternal returns or throws what it had, the
\* wrapper's finally removes the pending entry, the promise settles.
CloseOK(c) ==
    /\ calls[c].pc = "closing"
    /\ calls' = Settle([calls EXCEPT ![c].page = "closed"], c, calls[c].ret)
    /\ pendingRequests' = MapDelete(pendingRequests, calls[c].url)
    /\ fetched' = IF calls[c].ret.state = "fulfilled"
                  THEN [fetched EXCEPT ![calls[c].url] =
                           [html |-> calls[c].ret.value, at |-> calls[c].wroteAt]]
                  ELSE fetched
    /\ UNCHANGED <<parse, shutdown, env, clock, ticks, browserInstance, conn, lastRequestTime,
                   cache>>

\* page.close() rejects inside the finally block: its error replaces what
\* scrapeInternal was about to return or throw, untranslated.
CloseFail(c, err) ==
    /\ calls[c].pc = "closing"
    /\ calls' = Settle(calls, c, Rejected(err.text))
    /\ pendingRequests' = MapDelete(pendingRequests, calls[c].url)
    /\ UNCHANGED <<parse, shutdown, fetched, env, clock, ticks, browserInstance, conn, lastRequestTime,
                   cache>>

\* ------------------------------------------------------------------ clock
Tick(d) ==
    /\ ticks < MaxTicks
    /\ clock' = clock + d
    /\ ticks' = ticks + 1
    /\ UNCHANGED <<parse, shutdown, fetched, env, browserInstance, conn, lastRequestTime, cache,
                   pendingRequests, calls>>

Next ==
    \/ \E c \in CallIds, u \in Urls : Scrape(c, u)
    \/ \E c \in CallIds : RateLimitWake(c)
    \/ \E c \in CallIds : ConnectOK(c)
    \/ \E c \in CallIds, e \in Thrown : ConnectFail(c, e)
    \/ \E k \in CallIds : Disconnect(k)
    \/ \E c \in CallIds, e \in Thrown : NewPageFail(c, e)
    \/ \E c \in CallIds : ContentOK(c)
    \/ \E c \in CallIds, e \in Thrown : PageOpFail(c, e)
    \/ \E c \in CallIds : CloseOK(c)
    \/ \E c \in CallIds, e \in Thrown : CloseFail(c, e)
    \/ \E d \in TickSteps : Tick(d)

\* ----------------------------------------------------------- closeBrowser
\* closeBrowser is called (by the application or by the SIGINT handler):
\* with a handle it invokes close() on the connection the handle refers to
\* and awaits it, without a handle it returns at once.
CloseBrowserCall ==
    /\ shutdown.pc # "closing"
    /\ shutdown' = IF browserInstance # 0
                   THEN [pc |-> "closing", target |-> browserInstance]
                   ELSE [pc |-> "done", target |-> 0]
    /\ UNCHANGED <<parse, fetched, env, clock, ticks, browserInstance, conn,
                   lastRequestTime, cache, pendingRequests, calls>>

\* The connection being closed goes down: its 'disconnected' handler runs.
CloseBrowserDisconnected ==
    /\ shutdown.pc = "closing"
    /\ conn[shutdown.target] = "live"
    /\ conn' = [conn EXCEPT ![shutdown.target] = "closed"]
    /\ browserInstance' = 0
    /\ UNCHANGED <<parse, shutdown, fetched, env, clock, ticks, lastRequestTime,
                   cache, pendingRequests, calls>>

\* close() resolves and closeBrowser clears the handle.
CloseBrowserReturn ==
    /\ shutdown.pc = "closing"
    /\ conn[shutdown.target] # "live"
    /\ browserInstance' = 0
    /\ shutdown' = [shutdown EXCEPT !.pc = "done"]
    /\ UNCHANGED <<parse, fetched, env, clock, ticks, conn, lastRequestTime, cache,
                   pendingRequests, calls>>

\* close() rejects: closeBrowser throws before it clears the handle.
CloseBrowserFail ==
    /\ shutdown.pc = "closing"
    /\ shutdown' = [shutdown EXCEPT !.pc = "failed"]
    /\ UNCHANGED <<parse, fetched, env, clock, ticks, browserInstance, conn,
                   lastRequestTime, cache, pendingRequests, calls>>

NextShutdown ==
    \/ Next
    \/ CloseBrowserCall
    \/ CloseBrowserDisconnected
    \/ CloseBrowserReturn
    \/ CloseBrowserFail

Spec == Init /\ [][Next]_vars

SpecShutdown == Init /\ [][NextShutdown]_vars

\* --------------------------------------------------------------- clearCache
\* clearCache(): both Maps are emptied, whatever is under way.
ClearCache ==
    /\ cache' = << >>
    /\ pendingRequests' = << >>
    /\ UNCHANGED <<parse, shutdown, fetched, env, clock, ticks,
                   browserInstance, conn, lastRequestTime, calls>>

NextClear ==
    \/ Next
    \/ ClearCache

SpecClear == Init /\ [][NextClear]_vars

SpecWarm == InitWarm /\ [][Next]_vars

SpecRecent == InitRecent /\ [][Next]_vars

\* ------------------------------------------------------------- progress
\* The process has nothing to run while call c sleeps in waitForRateLimit:
\* time passes until the timer of c is due.
TimerDue(c) ==
    /\ calls[c].pc = "rlSleep"
    /\ clock < calls[c].wakeAt
    /\ clock' = calls[c].wakeAt
    /\ UNCHANGED <<parse, shutdown, fetched, env, ticks, browserInstance,
                   conn, lastRequestTime, cache, pendingRequests, calls>>

\* The steps of a process in which time passes only up to the next timer:
\* scrape is called at the start or at an instant a timer is due.
NextLive ==
    \/ \E c \in CallIds, u \in Urls : Scrape(c, u)
    \/ \E c \in CallIds : TimerDue(c)
    \/ \E c \in CallIds : RateLimitWake(c)
    \/ \E c \in CallIds : ConnectOK(c)
    \/ \E c \in CallIds, e \in Thrown : ConnectFail(c, e)
    \/ \E k \in CallIds : Disconnect(k)
    \/ \E c \in CallIds, e \in Thrown : NewPageFail(c, e)
    \/ \E c \in CallIds : ContentOK(c)
    \/ \E c \in CallIds, e \in Thrown : PageOpFail(c, e)
    \/ \E c \in CallIds : CloseOK(c)
    \/ \E c \in CallIds, e \in Thrown : CloseFail(c, e)

\* What the runtime and the remote browser are taken to guarantee: a timer
\* that was set becomes due and its callback runs, and every browser
\* operation a call awaits (connectOverCDP; newPage and the operations on
\* the page up to page.content(); page.close()) resolves or rejects.
\* Nothing obliges a caller to call scrape or the remote side to drop a
\* connection.
Fairness ==
    \A c \in CallIds :
        /\ WF_vars(TimerDue(c))
        /\ WF_vars(RateLimitWake(c))
        /\ WF_vars(ConnectOK(c) \/ \E e \in Thrown : ConnectFail(c, e))
        /\ WF_vars(\/ ContentOK(c)
                   \/ \E e \in Thrown : NewPageFail(c, e) \/ PageOpFail(c, e))
        /\ WF_vars(CloseOK(c) \/ \E e \in Thrown : CloseFail(c, e))

SpecLive == Init /\ [][NextLive]_vars /\ Fairness

\* ======================================================================
\* parse.ts
\* ======================================================================

\* The variables of scrape.ts, which no extraction reads or writes.
scrapeVars == <<env, clock, ticks, browserInstance, conn, lastRequestTime,
                cache, pendingRequests, calls, fetched, shutdown>>

\* The module scope of scrape.ts while nothing has been fetched.
NoScrape ==
    /\ env = [token |-> TRUE]
    /\ clock = Epoch
    /\ ticks = 0
    /\ browserInstance = 0
    /\ conn = [k \in CallIds |-> "none"]
    /\ lastRequestTime = 0
    /\ cache = << >>
    /\ pendingRequests = << >>
    /\ calls = [c \in CallIds |-> NewCall]
    /\ fetched = [u \in Urls |-> NoFetch]
    /\ shutdown = NoShutdown

\* ------------------------------------------------------------------ text
\* A text is a string; SubSeq, Len and \o are the string operations.
charAt(s, i) == SubSeq(s, i, i)

slice(s, i) == SubSeq(s, i, Len(s))

startsWith(s, p) == Len(p) <= Len(s) /\ SubSeq(s, 1, Len(p)) = p

\* s.indexOf(p, from), 1-based; 0 when p does not occur at or after from.
RECURSIVE indexOf(_, _, _)
indexOf(s, p, from) ==
    IF from + Len(p) - 1 > Len(s) THEN 0
    ELSE IF SubSeq(s, from, from + Len(p) - 1) = p THEN from
    ELSE indexOf(s, p, from + 1)

\* The character classes of the regular expressions: \d, \w, \s (of which
\* the ones written here occur in the inputs) and the punctuation that
\* cleanText keeps.
Digit == {"0", "1", "2", "3", "4", "5", "6", "7", "8", "9"}

Word ==
    Digit \cup {"_"} \cup
    {"a", "b", "c", "d", "e", "f", "g", "h", "i", "j", "k", "l", "m",
     "n", "o", "p", "q", "r", "s", "t", "u", "v", "w", "x", "y", "z",
     "A", "B", "C", "D", "E", "F", "G", "H", "I", "J", "K", "L", "M",
     "N", "O", "P", "Q", "R", "S", "T", "U", "V", "W", "X", "Y", "Z"}

Whitespace == {" ", "\t", "\n", "\r"}

KeptPunctuation == {"-", ".", ",", "!", "?", "(", ")", "&", "$", "+"}

\* .replace(/<!--[\s\S]*?-->/g, ''): from left to right, every "<!--" that
\* has a "-->" after it is removed up to and including the nearest one.
RECURSIVE removeComments(_)
removeComments(s) ==
    LET open  == indexOf(s, "<!--", 1)
        close == indexOf(s, "-->", open + 4)
    IN  IF open = 0 \/ close = 0 THEN s
        ELSE SubSeq(s, 1, open - 1) \o removeComments(slice(s, close + 3))

\* .replace(/[D]+/g, '') for a set D of characters.
RECURSIVE removeChars(_, _)
removeChars(s, D) ==
    IF s = "" THEN ""
    ELSE (IF charAt(s, 1) \in D THEN "" ELSE charAt(s, 1))
         \o removeChars(slice(s, 2), D)

\* .replace(/[^K]/g, '') for a set K of characters.
RECURSIVE keepChars(_, _)
keepChars(s, K) ==
    IF s = "" THEN ""
    ELSE (IF charAt(s, 1) \in K THEN charAt(s, 1) ELSE "")
         \o keepChars(slice(s, 2), K)

RECURSIVE trimStart(_)
trimStart(s) ==
    IF s # "" /\ charAt(s, 1) \in Whitespace THEN trimStart(slice(s, 2)) ELSE s

RECURSIVE trimEnd(_)
trimEnd(s) ==
    IF s # "" /\ charAt(s, Len(s)) \in Whitespace
    THEN trimEnd(SubSeq(s, 1, Len(s) - 1))
    ELSE s

trim(s) == trimEnd(trimStart(s))

\* .replace(/\s+/g, ' ')
RECURSIVE collapseWhitespace(_)
collapseWhitespace(s) ==
    IF s = "" THEN ""
    ELSE IF charAt(s, 1) \in Whitespace
    THEN " " \o collapseWhitespace(trimStart(s))
    ELSE charAt(s, 1) \o collapseWhitespace(slice(s, 2))

\* A cleanText that only collapses and trims whitespace.
cleanTextWhitespaceOnly(text) == trim(collapseWhitespace(text))

cleanText(text) ==
    IF text = "" THEN ""
    ELSE trim(keepChars(collapseWhitespace(removeChars(removeComments(text),
                                                       {"*"})),
                        Word \cup Whitespace \cup KeptPunctuation))

\* -------------------------------------------------------------- cleanText
\* The raw texts: up to MaxPieces pieces, one after the other.
MaxPieces == 5

Pieces == {"a", " ", "\n", "#", "*", "<!--", "-->"}

\* The texts made of up to n pieces of P.
RECURSIVE TextsOver(_, _)
TextsOver(P, n) ==
    IF n = 0 THEN {""}
    ELSE LET T == TextsOver(P, n - 1)
         IN  T \cup {t \o q : t \in T, q \in P}

RawTexts == TextsOver(Pieces, MaxPieces)

InitCleanText ==
    /\ NoScrape
    /\ parse \in {[pc |-> "raw", text |-> t] : t \in RawTexts}

\* cleanText is applied to a raw text, and again to what it returned.
CleanText ==
    /\ parse.pc \in {"raw", "cleaned"}
    /\ parse' = [pc   |-> IF parse.pc = "raw" THEN "cleaned" ELSE "recleaned",
                 text |-> cleanText(parse.text)]
    /\ UNCHANGED scrapeVars

NextCleanText == CleanText

SpecCleanText == InitCleanText /\ [][NextCleanText]_vars

\* ----------------------------------------------------------- listing page
\* number | undefined: no count is negative, so -1 stands for undefined.
UNDEFINED == -1

\* x || '' for an attribute value that may be undefined.
orEmpty(x) == IF x = NULL THEN "" ELSE x

\* The least element of a non-empty set of positions, 0 for the empty set.
firstOf(S) == IF S = {} THEN 0 ELSE CHOOSE i \in S : \A j \in S : i <= j

\* extractTextWithSelectors: found[i] is $element.find(selectors[i])
\* .first().text(); the first text that is non-empty once cleaned.
extractTextWithSelectors(found) ==
    LET hit == firstOf({i \in DOMAIN found : cleanText(found[i]) # ""})
    IN  IF hit = 0 THEN "" ELSE cleanText(found[hit])

normalizeLinkedInUrl(url) ==
    IF url = "" THEN ""
    ELSE IF startsWith(url, "/") THEN "https://www.linkedin.com" \o url
    ELSE url

digitValue(ch) == CHOOSE n \in 0..9 : ToString(n) = ch

\* parseInt(s, 10) of a non-empty string of digits.
RECURSIVE parseInt(_)
parseInt(s) ==
    IF Len(s) = 1 THEN digitValue(s)
    ELSE 10 * parseInt(SubSeq(s, 1, Len(s) - 1)) + digitValue(charAt(s, Len(s)))

\* The position of the first digit of s at or after i, 0 when there is none.
RECURSIVE indexOfDigit(_, _)
indexOfDigit(s, i) ==
    IF i > Len(s) THEN 0
    ELSE IF charAt(s, i) \in Digit THEN i
    ELSE indexOfDigit(s, i + 1)

\* \d{1,3} at position i, where a digit stands: the position of the last
\* digit it takes.
endOfDigits(s, i) ==
    IF i + 1 <= Len(s) /\ charAt(s, i + 1) \in Digit
    THEN IF i + 2 <= Len(s) /\ charAt(s, i + 2) \in Digit THEN i + 2 ELSE i + 1
    ELSE i

\* (?:,\d{3})* after position j: the position of the last character taken.
RECURSIVE endOfGroups(_, _)
endOfGroups(s, j) ==
    IF /\ j + 4 <= Len(s)
       /\ charAt(s, j + 1) = ","
       /\ \A k \in (j + 2)..(j + 4) : charAt(s, k) \in Digit
    THEN endOfGroups(s, j + 4)
    ELSE j

\* text.match(/(\d{1,3}(?:,\d{3})*)\+?/): the match starts at the first
\* digit of the text; its group 1 is parsed with the commas removed.
extractNumberFromText(text) ==
    IF text = "" THEN UNDEFINED
    ELSE LET i == indexOfDigit(text, 1)
         IN  IF i = 0 THEN UNDEFINED
             ELSE parseInt(removeChars(
                      SubSeq(text, i, endOfGroups(text, endOfDigits(text, i))),
                      {","}))

\* A document as cheerio.load hands it to extractJobSearchResults: the
\* elements that a card selector matches, in document order, and the text
\* of the elements that the total-count selector matches.  A card element:
\*   primary     it matches JOB_CARD_SELECTORS
\*   similar     it matches the similar-jobs card selector
\*   titles      the text of its first element for each of TITLE_SELECTORS
\*   jobSpan     the text of its first a[data-tracking-control-name*="job"] span
\*   srOnly      the text of its .sr-only elements, which precede its headings
\*   companies   the text of its first element for each of COMPANY_SELECTORS
\*   companyLink the text of its a[data-tracking-control-name*="company"]
\*   anchors     its a elements: whether of class base-card__full-link, and
\*               the href attribute (NULL when it has none)
\*   location    the text of its .main-job-card__location element
\*   listdate    the text of its time.main-job-card__listdate element
\*   salaryInfo  the text of its .main-job-card__salary-info element
\*   jobType     the text of its .main-job-card__job-type element
\*   snippet     the text of its .main-job-card__snippet element
\* and it holds no other element that the selectors of these five fields
\* match.
BlankCard ==
    [primary |-> TRUE, similar |-> FALSE,
     titles |-> <<"", "", "">>, jobSpan |-> "", srOnly |-> "",
     companies |-> <<"", "", "">>, companyLink |-> "",
     anchors |-> << >>,
     location |-> "", listdate |-> "", salaryInfo |-> "", jobType |-> "",
     snippet |-> ""]

\* $card.find(selector).attr('href') for the anchors at the positions S.
attrHref(anchors, S) == IF S = {} THEN NULL ELSE anchors[firstOf(S)].href

\* A filter that asks for the title only.
missingEssentialTitleOnly(jobTitle, companyName) == jobTitle = ""

\* !jobTitle || !companyName
missingEssential(jobTitle, companyName) == jobTitle = "" \/ companyName = ""

\* The title and the company that the first pass finds in a card.
cardTitle(card) ==
    LET jobTitle == extractTextWithSelectors(card.titles)
    IN  IF jobTitle = "" THEN cleanText(card.jobSpan) ELSE jobTitle

cardCompany(card) ==
    LET companyName == extractTextWithSelectors(card.companies)
    IN  IF companyName = "" THEN cleanText(card.companyLink) ELSE companyName

\* a.base-card__full-link, a[href*="/jobs/view/"]
cardLinks(card) ==
    {i \in DOMAIN card.anchors :
        \/ card.anchors[i].fullLink
        \/ /\ card.anchors[i].href # NULL
           /\ indexOf(card.anchors[i].href, "/jobs/view/", 1) # 0}

\* The first pass over one card: what it pushes, << >> when it skips.
searchCard(card) ==
    IF missingEssential(cardTitle(card), cardCompany(card)) THEN << >>
    ELSE <<[jobTitle    |-> cardTitle(card),
            companyName |-> cardCompany(card),
            jobUrl      |-> normalizeLinkedInUrl(
                                orEmpty(attrHref(card.anchors, cardLinks(card)))),
            location    |-> IF cleanText(card.location) = ""
                            THEN "Not specified"
                            ELSE cleanText(card.location),
            postedTime  |-> cleanText(card.listdate),
            jobType     |-> cleanText(card.jobType),
            salaryRange |-> cleanText(card.salaryInfo),
            description |-> cleanText(card.snippet)]>>

\* The title and the company that the similar-jobs pass finds in a card.
similarTitle(card) == cleanText(card.srOnly \o card.titles[1])

similarCompany(card) == cleanText(card.companies[1])

\* a.base-card__full-link
similarLinks(card) == {i \in DOMAIN card.anchors : card.anchors[i].fullLink}

\* The similar-jobs pass over one card.
similarCard(card) ==
    IF missingEssential(similarTitle(card), similarCompany(card)) THEN << >>
    ELSE <<[jobTitle    |-> similarTitle(card),
            companyName |-> similarCompany(card),
            jobUrl      |-> normalizeLinkedInUrl(
                                orEmpty(attrHref(card.anchors, similarLinks(card)))),
            location    |-> IF cleanText(card.location) = ""
                            THEN "Not specified"
                            ELSE cleanText(card.location),
            postedTime  |-> cleanText(card.listdate),
            jobType     |-> "",
            salaryRange |-> cleanText(card.salaryInfo),
            description |-> ""]>>

RECURSIVE searchCards(_)
searchCards(cards) ==
    IF cards = << >> THEN << >>
    ELSE (IF Head(cards).primary THEN searchCard(Head(cards)) ELSE << >>)
         \o searchCards(Tail(cards))

RECURSIVE similarCards(_)
similarCards(cards) ==
    IF cards = << >> THEN << >>
    ELSE (IF Head(cards).similar THEN similarCard(Head(cards)) ELSE << >>)
         \o similarCards(Tail(cards))

\* A similar-jobs pass that runs whatever the first pass found.
noJobsFoundAlways(jobs) == TRUE

\* jobs.length === 0
noJobsFound(jobs) == jobs = << >>

\* Both passes push onto the same array.
extractJobSearchResults(doc) ==
    LET jobs == searchCards(doc.cards)
    IN  [jobs         |-> IF noJobsFound(jobs)
                          THEN jobs \o similarCards(doc.cards)
                          ELSE jobs,
         totalResults |-> IF doc.header # ""
                          THEN extractNumberFromText(doc.header)
                          ELSE UNDEFINED]

\* The documents: listings of up to MaxCards cards whose titles and
\* companies sit in different elements, listings whose cards differ in
\* their links, and pages with a count header.
MaxCards == 2

TitleShapes ==
    {[titles |-> <<"", "", "">>,       jobSpan |-> "",   srOnly |-> ""],
     [titles |-> <<"Dev", "", "">>,    jobSpan |-> "",   srOnly |-> ""],
     [titles |-> <<"#", "", "Ops">>,   jobSpan |-> "",   srOnly |-> ""],
     [titles |-> <<"", "", "">>,       jobSpan |-> "QA", srOnly |-> ""],
     [titles |-> <<"", "", "">>,       jobSpan |-> "",   srOnly |-> "Dev"]}

CompanyShapes ==
    {[companies |-> <<"", "", "">>,     companyLink |-> ""],
     [companies |-> <<"Acme", "", "">>, companyLink |-> ""],
     [companies |-> <<"", "", "">>,     companyLink |-> "Initech"]}

CardKinds == {<<TRUE, FALSE>>, <<FALSE, TRUE>>, <<TRUE, TRUE>>}

JobLink == [fullLink |-> TRUE, href |-> "/jobs/view/1"]

ListingCards ==
    {[BlankCard EXCEPT !.primary = k[1], !.similar = k[2],
                       !.titles = t.titles, !.jobSpan = t.jobSpan,
                       !.srOnly = t.srOnly,
                       !.companies = c.companies,
                       !.companyLink = c.companyLink,
                       !.anchors = <<JobLink>>] :
        k \in CardKinds, t \in TitleShapes, c \in CompanyShapes}

AnchorLists ==
    {<< >>,
     <<JobLink>>,
     <<[fullLink |-> TRUE,  href |-> NULL]>>,
     <<[fullLink |-> TRUE,  href |-> "#"]>>,
     <<[fullLink |-> TRUE,  href |-> "https://www.linkedin.com/jobs/view/1"]>>,
     <<[fullLink |-> FALSE, href |-> "https://uk.linkedin.com/jobs/view/2"]>>,
     <<[fullLink |-> FALSE, href |-> "../jobs/view/4"]>>,
     <<[fullLink |-> FALSE, href |-> "/company/acme"],
       [fullLink |-> FALSE, href |-> "/jobs/view/3"]>>}

\* Cards whose texts hold asterisks, for either pass.
FieldCards ==
    {[BlankCard EXCEPT !.primary = k, !.similar = ~k,
                       !.titles = <<t, "", "">>,
                       !.companies = <<"*Acme*", "", "">>,
                       !.location = l, !.listdate = d, !.jobType = j,
                       !.anchors = <<JobLink>>] :
        k \in BOOLEAN, t \in {"Dev", "** Dev **"}, l \in {"", "*", "Oslo *"},
        d \in {"", "*1 day ago"}, j \in {"", "Full*time"}}

LinkCards ==
    {[BlankCard EXCEPT !.titles = <<"Dev", "", "">>,
                       !.companies = <<"Acme", "", "">>,
                       !.anchors = a] : a \in AnchorLists}

\* The sequences of up to n elements of S.
RECURSIVE SeqsOver(_, _)
SeqsOver(S, n) ==
    IF n = 0 THEN {<< >>}
    ELSE LET Q == SeqsOver(S, n - 1)
         IN  Q \cup {Append(q, x) : q \in Q, x \in S}

CountPieces == {"1", "23", ",", ",000", "+", " results"}

\* The header texts hold at most CountDigits digits, so that every count
\* is below 10^9 and inside the integers the model computes with.
CountDigits == 9

HeaderTexts ==
    {h \in TextsOver(CountPieces, MaxPieces) :
        Len(keepChars(h, Digit)) <= CountDigits}

ListingDocs ==
    {[cards |-> cs, header |-> ""] : cs \in SeqsOver(ListingCards, MaxCards)}

LinkDocs ==
    {[cards |-> cs, header |-> ""] : cs \in SeqsOver(LinkCards, MaxCards)}

FieldDocs ==
    {[cards |-> cs, header |-> ""] : cs \in SeqsOver(FieldCards, MaxCards)}

HeaderDocs == {[cards |-> << >>, header |-> h] : h \in HeaderTexts}

InitListing ==
    /\ NoScrape
    /\ parse \in {[pc |-> "loaded", doc |-> d] : d \in ListingDocs}

InitLinks ==
    /\ NoScrape
    /\ parse \in {[pc |-> "loaded", doc |-> d] : d \in LinkDocs}

InitFields ==
    /\ NoScrape
    /\ parse \in {[pc |-> "loaded", doc |-> d] : d \in FieldDocs}

InitHeader ==
    /\ NoScrape
    /\ parse \in {[pc |-> "loaded", doc |-> d] : d \in HeaderDocs}

\* scrapeSearchResults returns what extractJobSearchResults makes of the
\* loaded document.
ScrapeSearchResults ==
    /\ parse.pc = "loaded"
    /\ parse' = [pc  |-> "extracted",
                 doc |-> parse.doc,
                 out |-> extractJobSearchResults(parse.doc)]
    /\ UNCHANGED scrapeVars

NextSearch == ScrapeSearchResults

SpecListing == InitListing /\ [][NextSearch]_vars

SpecLinks == InitLinks /\ [][NextSearch]_vars

SpecHeader == InitHeader /\ [][NextSearch]_vars

SpecFields == InitFields /\ [][NextSearch]_vars

\* ------------------------------------------------------------ detail page
endsWith(s, p) ==
    Len(p) <= Len(s) /\ SubSeq(s, Len(s) - Len(p) + 1, Len(s)) = p

\* .replace(/\s*\|\s*LinkedIn$/, '')
stripLinkedInSuffix(s) ==
    IF ~endsWith(s, "LinkedIn") THEN s
    ELSE LET before == trimEnd(SubSeq(s, 1, Len(s) - Len("LinkedIn")))
         IN  IF endsWith(before, "|")
             THEN trimEnd(SubSeq(before, 1, Len(before) - 1))
             ELSE s

\* content.split(' hiring ')[0]
beforeHiring(s) ==
    LET at == indexOf(s, " hiring ", 1)
    IN  IF at = 0 THEN s ELSE SubSeq(s, 1, at - 1)

\* a || b for strings.
orElse(a, b) == IF a # "" THEN a ELSE b

\* A detail document as extractJobDetail sees it: the text of the elements
\* that each selector of the two chains matches, and the content attribute
\* of meta[property="og:title"] (NULL when there is no such element).
detailTitle(doc) ==
    orElse(cleanText(doc.topcardTitle),
           orElse(cleanText(doc.h1JobTitle),
                  cleanText(stripLinkedInSuffix(doc.title))))

detailCompany(doc) ==
    orElse(cleanText(doc.orgNameLink),
           orElse(cleanText(doc.subNavUrl),
                  IF doc.ogTitle = NULL THEN ""
                  ELSE trim(beforeHiring(doc.ogTitle))))

\* An early return taken when either of the two is missing.
noBasicInfoEither(jobTitle, companyName) == jobTitle = "" \/ companyName = ""

\* !jobTitle && !companyName
noBasicInfo(jobTitle, companyName) == jobTitle = "" /\ companyName = ""

\* The loop over descSelectors: doc.containers[i] is the inner markup of
\* the first element that descSelectors[i] matches, NULL when it matches
\* none; the loop stops at the first selector that matches an element.
detailDescription(doc) ==
    LET hit == firstOf({i \in DOMAIN doc.containers : doc.containers[i] # NULL})
    IN  IF hit = 0 THEN "" ELSE trim(doc.containers[hit])

\* JobData | null: << >> for null, otherwise the record, of which the
\* title, the company and the description are kept.
extractJobDetail(doc) ==
    IF noBasicInfo(detailTitle(doc), detailCompany(doc)) THEN << >>
    ELSE <<[jobTitle       |-> orElse(detailTitle(doc), "Unknown Title"),
            companyName    |-> orElse(detailCompany(doc), "Unknown Company"),
            jobDescription |-> detailDescription(doc)]>>

DetailDocs ==
    [topcardTitle : {"", "Dev", "#"},
     h1JobTitle   : {"", "Dev Ops"},
     title        : {"", "QA | LinkedIn", " | LinkedIn", "LinkedIn"},
     orgNameLink  : {"", "Acme", "**"},
     subNavUrl    : {"", "Initech"},
     ogTitle      : {NULL, "", "  ", "Acme hiring Dev in Oslo | LinkedIn",
                     " hiring Dev"},
     containers   : {<<NULL, NULL, NULL>>}]

\* Documents with a title, whose company can only come from the
\* Open-Graph title and whose description containers differ.
Markups == {NULL, "", "<p>Hi</p>", " <b>Go</b> "}

DescriptionDocs ==
    [topcardTitle : {"Dev"},
     h1JobTitle   : {""},
     title        : {"Dev | LinkedIn"},
     orgNameLink  : {""},
     subNavUrl    : {""},
     ogTitle      : {NULL, "Acme hiring Dev", "Ac*me  Ltd. hiring Dev"},
     containers   : Markups \X Markups \X Markups]

InitDetail ==
    /\ NoScrape
    /\ parse \in {[pc |-> "loaded", doc |-> d] : d \in DetailDocs}

InitDescription ==
    /\ NoScrape
    /\ parse \in {[pc |-> "loaded", doc |-> d] : d \in DescriptionDocs}

\* scrape returns what extractJobDetail makes of the loaded document.
ScrapeDetail ==
    /\ parse.pc = "loaded"
    /\ parse' = [pc  |-> "detailed",
                 doc |-> parse.doc,
                 out |-> extractJobDetail(parse.doc)]
    /\ UNCHANGED scrapeVars

NextDetail == ScrapeDetail

SpecDetail == InitDetail /\ [][NextDetail]_vars

SpecDescription == InitDescription /\ [][NextDetail]_vars

\* ======================================================================
\* Properties
\* ======================================================================

\* The step in which call c leaves waitForRateLimit (with or without having
\* slept) and writes lastRequestTime.
ReleasedNow(c) ==
    /\ calls'[c].mode = "fetch"
    /\ calls[c].pc \in {"init", "rlSleep"}
    /\ calls'[c].pc # "rlSleep"

\* C1: a scrape(u) call made while a fetch of u is under way and the cache
\* has no fresh entry for u starts no fetch of its own: it holds the
\* promise of the fetch under way, never opens a page, and receives exactly
\* what that fetch's caller receives (the same markup or the same error);
\* markup is only ever delivered by a fetch that opened a page.
C1_DedupSharedFetch ==
    /\ [](\A c \in CallIds : calls[c].mode = "dedup" =>
            LET d == calls[c].promise
            IN  /\ d \in CallIds \ {c}
                /\ calls[d].mode = "fetch"
                /\ calls[d].url = calls[c].url
                /\ calls[c].page = "none"
                /\ calls[c].pc \in {"awaiting", "done"}
                /\ calls[c].result = calls[d].result
                /\ (calls[c].pc = "done") = (calls[d].pc = "done")
                /\ calls[c].result.state = "fulfilled" => calls[d].page # "none")
    /\ [][\A c \in CallIds :
            (/\ calls[c].pc = "init"
             /\ calls'[c].pc # "init"
             /\ calls'[c].mode # "cache")
            => \A d \in InFlight :
                   calls[d].url = calls'[c].url
                   => /\ calls'[c].mode = "dedup"
                      /\ calls'[c].promise = d]_vars

C1_Witness ==
    \E c \in CallIds :
        /\ calls[c].mode = "dedup"
        /\ calls[c].pc = "done"
        /\ calls[c].result.state = "fulfilled"

\* C2: every release from the rate limiter comes at least
\* MIN_REQUEST_INTERVAL after the release before it (lastRequestTime holds
\* the time of the latest release).
C2_ReleasesSpaced ==
    [][\A c \in CallIds :
        ReleasedNow(c) => clock - lastRequestTime >= MIN_REQUEST_INTERVAL]_vars

\* C3 as claimed: a scrape(u) call made less than CACHE_DURATION after the
\* latest successful fetch of u is answered at once with that fetch's
\* markup and starts nothing, whatever happened in between.
C3_CachedWithinTTL ==
    [][\A c \in CallIds, u \in Urls :
        (/\ calls[c].pc = "init"
         /\ calls'[c].url = u
         /\ fetched[u] # NoFetch
         /\ clock - fetched[u].at < CACHE_DURATION)
        => /\ calls'[c].mode = "cache"
           /\ calls'[c].pc = "done"
           /\ calls'[c].result = Fulfilled(fetched[u].html)
           /\ calls'[c].page = "none"
           /\ pendingRequests' = pendingRequests
           /\ lastRequestTime' = lastRequestTime
           /\ cache' = cache]_vars

\* C3 as amended: the same, provided the cache still holds the entry that
\* fetch wrote (it has not been evicted by later insertions).
C3_CachedWhileEntryKept ==
    [][\A c \in CallIds, u \in Urls :
        (/\ calls[c].pc = "init"
         /\ calls'[c].url = u
         /\ fetched[u] # NoFetch
         /\ clock - fetched[u].at < CACHE_DURATION
         /\ MapHas(cache, u)
         /\ MapGet(cache, u) =
                [html |-> fetched[u].html, timestamp |-> fetched[u].at])
        => /\ calls'[c].mode = "cache"
           /\ calls'[c].pc = "done"
           /\ calls'[c].result = Fulfilled(fetched[u].html)
           /\ calls'[c].page = "none"
           /\ pendingRequests' = pendingRequests
           /\ lastRequestTime' = lastRequestTime
           /\ cache' = cache]_vars

\* A call for URL 1 was answered from the cache with the markup of the
\* earlier fetch, after a call for another URL had been made and had
\* started a fetch (calls are made in the order of their ids).
C3_Witness ==
    \E c, d \in CallIds :
        /\ d < c
        /\ calls[d].mode = "fetch"
        /\ calls[d].url # 1
        /\ calls[c].mode = "cache"
        /\ calls[c].url = 1
        /\ calls[c].result = Fulfilled(fetched[1].html)

\* C4: the cache never holds more than MAX_CACHE_SIZE entries; a write that
\* adds a key to a full cache removes exactly one entry, whose timestamp is
\* the smallest of all entries, and no other write removes anything.
C4_BoundedOldestEvicted ==
    /\ [](Len(cache) <= MAX_CACHE_SIZE)
    /\ [][cache' # cache =>
            LET added   == MapKeys(cache') \ MapKeys(cache)
                removed == MapKeys(cache) \ MapKeys(cache')
            IN  IF added # {} /\ Len(cache) = MAX_CACHE_SIZE
                THEN /\ Cardinality(added) = 1
                     /\ Cardinality(removed) = 1
                     /\ Len(cache') = MAX_CACHE_SIZE
                     /\ \A r \in removed :
                           /\ MapGet(cache, r).timestamp <= clock
                           /\ \A i \in 1..Len(cache) :
                                 MapGet(cache, r).timestamp
                                     <= cache[i].val.timestamp
                ELSE removed = {}]_vars

\* A fetch made in the behaviour has pushed an entry of the warm start out
\* of the full cache.
C4_Witness ==
    /\ Len(cache) = MAX_CACHE_SIZE
    /\ \E u \in Urls : MapHas(cache, u) /\ MapGet(cache, u).timestamp >= Epoch
    /\ \E k \in {1} \cup {WarmKey(i) : i \in 1..(MAX_CACHE_SIZE - 1)} :
           ~MapHas(cache, k)

\* C5: a fetch that failed has not written the cache.
C5_CacheOnlyOnSuccess ==
    \A c \in CallIds :
        (calls[c].mode = "fetch" /\ calls[c].outcome.state = "rejected")
        => ~calls[c].wrote

\* C6: pendingRequests holds at most one entry per URL; the entry of a
\* fetch stays registered while the fetch is under way and is gone once
\* its promise has settled, on success and on failure, so no caller has a
\* result while the entry of the promise it holds is registered.
C6_PendingRemovedOnCompletion ==
    /\ \A i, j \in 1..Len(pendingRequests) :
           pendingRequests[i].key = pendingRequests[j].key => i = j
    /\ \A c \in CallIds : calls[c].mode = "fetch" =>
           IF calls[c].outcome.state = "pending"
           THEN existingRequest(pendingRequests, calls[c].url) = c
           ELSE existingRequest(pendingRequests, calls[c].url) # c
    /\ \A c \in CallIds :
           (calls[c].mode # "cache" /\ calls[c].result.state # "pending")
           => \A i \in 1..Len(pendingRequests) :
                  pendingRequests[i].val # calls[c].promise

\* One fetch has failed and one has succeeded, and neither has left its
\* pending entry behind.
C6_Witness ==
    /\ pendingRequests = << >>
    /\ \E c \in CallIds :
           calls[c].mode = "fetch" /\ calls[c].outcome.state = "rejected"
    /\ \E c \in CallIds :
           calls[c].mode = "fetch" /\ calls[c].outcome.state = "fulfilled"

\* C7: at most one connection is live, and a live connection is the one
\* browserInstance refers to.
C7_SingleConnection ==
    /\ Cardinality({k \in CallIds : conn[k] = "live"}) <= 1
    /\ \A k \in CallIds : conn[k] = "live" => browserInstance = k

\* C8: the handle never refers to a connection that has disconnected: the
\* disconnect clears it; a fetch that enters getBrowser while the handle is
\* clear connects anew, and a fetch leaves getBrowser only with a connection
\* that is live at that moment.
C8_ReconnectAfterDisconnect ==
    /\ [](\A k \in CallIds : conn[k] = "dead" => browserInstance # k)
    /\ [][(\E k \in CallIds : conn[k] = "live" /\ conn'[k] = "dead")
            => browserInstance' = 0]_vars
    /\ [][\A c \in CallIds :
            /\ (ReleasedNow(c) /\ env.token /\ browserInstance = 0)
               => (calls'[c].pc = "connecting" /\ conn'[c] = "connecting")
            /\ (calls[c].pc # "page" /\ calls'[c].pc = "page")
               => (/\ calls'[c].browser # 0
                   /\ conn'[calls'[c].browser] = "live"
                   /\ browserInstance' = calls'[c].browser)]_vars

\* A connection has disconnected and a later getBrowser call has established
\* the connection the handle now refers to.
C8_Witness ==
    \E k, c \in CallIds :
        /\ conn[k] = "dead"
        /\ conn[c] = "live"
        /\ browserInstance = c
        /\ calls[c].browser = c

\* C9: the scrape call whose connection attempt failed is rejected with the
\* connection error.
C9_ConnectionErrorSurfaced ==
    \A c \in CallIds :
        conn[c] = "failed" => calls[c].result = Rejected(ERR_CONNECT)

\* C10: without BROWSERLESS_TOKEN a scrape call never waits on the rate
\* limiter, never attempts a connection or opens a page, and is rejected
\* with the configuration error.
C10_MissingTokenFailsFast ==
    ~env.token =>
        \A c \in CallIds :
            /\ calls[c].pc # "rlSleep"
            /\ conn[c] = "none"
            /\ calls[c].page = "none"
            /\ calls[c].pc = "done" => calls[c].result = Rejected(ERR_NO_TOKEN)

C12_NavigationTimeoutNonFatal ==
    \A c \in CallIds :
        calls[c].page # "none"
        => /\ calls[c].ret # Rejected(ERR_TIMED_OUT)
           /\ calls[c].result # Rejected(ERR_TIMED_OUT)

\* C13: a fetch that fails is rejected with the rate-limit error, the
\* timed-out error or the generic error, whatever failed inside it.
C13_EveryFailureTranslated ==
    \A c \in CallIds :
        (calls[c].mode = "fetch" /\ calls[c].outcome.state = "rejected")
        => calls[c].outcome.value \in {ERR_RATE_LIMIT, ERR_TIMED_OUT, ERR_GENERIC}

\* C14: when closeBrowser completes, the shared handle is cleared and no
\* connection is live.
C14_ShutdownLeavesNoSession ==
    [][(shutdown.pc # "done" /\ shutdown'.pc = "done")
       => /\ browserInstance' = 0
          /\ \A k \in CallIds : conn'[k] # "live"]_vars

\* C15: a call that enters waitForRateLimit less than MIN_REQUEST_INTERVAL
\* after the release it finds in lastRequestTime sleeps, leaves
\* lastRequestTime alone while it sleeps, and is released only once
\* MIN_REQUEST_INTERVAL has elapsed since that release; a call that enters
\* later is released in the same step, without a sleep.  Every release
\* stamps lastRequestTime with the time of the release.
C15_SecondCallWaitsOutInterval ==
    [][\A c \in CallIds :
        /\ (calls[c].pc = "init" /\ calls'[c].mode = "fetch")
           => IF clock - lastRequestTime < MIN_REQUEST_INTERVAL
              THEN /\ calls'[c].pc = "rlSleep"
                   /\ calls'[c].wakeAt = lastRequestTime + MIN_REQUEST_INTERVAL
                   /\ lastRequestTime' = lastRequestTime
              ELSE /\ calls'[c].pc # "rlSleep"
                   /\ lastRequestTime' = clock
        /\ calls[c].pc = "rlSleep"
           => \/ /\ calls'[c].pc = "rlSleep"
                 /\ calls'[c].wakeAt = calls[c].wakeAt
              \/ /\ calls'[c].pc # "rlSleep"
                 /\ clock >= calls[c].wakeAt
                 /\ lastRequestTime' = clock]_vars

\* A second call slept and was released a full interval after the first,
\* which is itself still under way.
C15_Witness ==
    \E c, d \in CallIds :
        /\ c # d
        /\ calls[d].mode = "fetch" /\ calls[d].wakeAt = 0
        /\ calls[d].pc \in {"connecting", "page", "closing"}
        /\ calls[c].wakeAt # 0
        /\ calls[c].pc \in {"connecting", "page", "closing"}
        /\ lastRequestTime = calls[c].wakeAt
        /\ clock = lastRequestTime

\* C16: cleanText applied to a text that cleanText returned gives that
\* text back.
C16_CleanTextIdempotent ==
    [][parse.pc = "cleaned" => parse'.text = parse.text]_vars

\* The job cards of a document that have both a title and a company, and
\* its similar-jobs cards that have both.
validCard(card) ==
    card.primary /\ cardTitle(card) # "" /\ cardCompany(card) # ""

validSimilarCard(card) ==
    card.similar /\ similarTitle(card) # "" /\ similarCompany(card) # ""

\* C17 as claimed: no returned item has an empty title or company, and the
\* items are the job cards that have both a title and a company, one item
\* per card, in document order.
C17_ExactlyTheValidCards ==
    parse.pc = "extracted" =>
        LET valid == SelectSeq(parse.doc.cards, validCard)
            jobs  == parse.out.jobs
        IN  /\ \A i \in DOMAIN jobs :
                   jobs[i].jobTitle # "" /\ jobs[i].companyName # ""
            /\ Len(jobs) = Len(valid)
            /\ \A i \in DOMAIN jobs :
                   /\ jobs[i].jobTitle = cardTitle(valid[i])
                   /\ jobs[i].companyName = cardCompany(valid[i])

\* C17 as amended: no returned item has an empty title or company; when
\* some job card has both a title and a company, the items are those job
\* cards, one item per card, in document order; when none has, the items
\* are the similar-jobs cards that have both by the selectors of that
\* pass, one item per card, in document order.
C17_ValidCardsOrSimilarJobs ==
    parse.pc = "extracted" =>
        LET valid   == SelectSeq(parse.doc.cards, validCard)
            similar == SelectSeq(parse.doc.cards, validSimilarCard)
            jobs    == parse.out.jobs
        IN  /\ \A i \in DOMAIN jobs :
                   jobs[i].jobTitle # "" /\ jobs[i].companyName # ""
            /\ valid # << >> =>
                   /\ Len(jobs) = Len(valid)
                   /\ \A i \in DOMAIN jobs :
                          /\ jobs[i].jobTitle = cardTitle(valid[i])
                          /\ jobs[i].companyName = cardCompany(valid[i])
            /\ valid = << >> =>
                   /\ Len(jobs) = Len(similar)
                   /\ \A i \in DOMAIN jobs :
                          /\ jobs[i].jobTitle = similarTitle(similar[i])
                          /\ jobs[i].companyName = similarCompany(similar[i])

\* A card without a company, then a card with both, whose title comes
\* from the fallback selector: one item, the second card's.
C17_Witness ==
    /\ parse.pc = "extracted"
    /\ Len(parse.doc.cards) = 2
    /\ parse.doc.cards[1].primary /\ cardTitle(parse.doc.cards[1]) # ""
    /\ cardCompany(parse.doc.cards[1]) = ""
    /\ validCard(parse.doc.cards[2])
    /\ extractTextWithSelectors(parse.doc.cards[2].titles) = ""
    /\ Len(parse.out.jobs) = 1
    /\ parse.out.jobs[1].jobTitle = "QA"

\* The first run of digits and thousands separators of a text that holds
\* a digit: from its first digit to the last character before one that is
\* neither a digit nor a comma.
RECURSIVE endOfRun(_, _)
endOfRun(s, j) ==
    IF j + 1 <= Len(s) /\ charAt(s, j + 1) \in Digit \cup {","}
    THEN endOfRun(s, j + 1)
    ELSE j

firstRun(s) ==
    SubSeq(s, indexOfDigit(s, 1), endOfRun(s, indexOfDigit(s, 1)))

\* C19: the total-result count is absent when the header text is empty or
\* holds no digit, and is otherwise the integer written by the first run
\* of digits and thousands separators once the separators are removed.
C19_CountIsFirstRunWithoutSeparators ==
    parse.pc = "extracted" =>
        parse.out.totalResults =
            IF indexOfDigit(parse.doc.header, 1) = 0 THEN UNDEFINED
            ELSE parseInt(removeChars(firstRun(parse.doc.header), {","}))

\* An absolute URL names its scheme and host.
isAbsoluteUrl(url) == startsWith(url, "https://") \/ startsWith(url, "http://")

\* C20: every returned item carries an absolute job URL: the href of the
\* card's job link prefixed with https://www.linkedin.com when it starts
\* with '/', and the href itself when it is absolute.
C20_JobUrlAbsolute ==
    parse.pc = "extracted" =>
        \A i \in DOMAIN parse.out.jobs :
            LET card == SelectSeq(parse.doc.cards, validCard)[i]
                href == orEmpty(attrHref(card.anchors, cardLinks(card)))
                url  == parse.out.jobs[i].jobUrl
            IN  /\ isAbsoluteUrl(url)
                /\ startsWith(href, "/") => url = "https://www.linkedin.com" \o href
                /\ isAbsoluteUrl(href) => url = href

\* The texts of the two fallback chains of a detail document, cleaned, in
\* the order in which they are tried.
titleChain(doc) ==
    <<cleanText(doc.topcardTitle), cleanText(doc.h1JobTitle),
      cleanText(stripLinkedInSuffix(doc.title))>>

companyChain(doc) ==
    <<cleanText(doc.orgNameLink), cleanText(doc.subNavUrl),
      IF doc.ogTitle = NULL THEN "" ELSE trim(beforeHiring(doc.ogTitle))>>

\* The first non-empty text of a chain, or the sentinel.
firstOr(chain, sentinel) ==
    LET hit == firstOf({i \in DOMAIN chain : chain[i] # ""})
    IN  IF hit = 0 THEN sentinel ELSE chain[hit]

\* C18: detail extraction returns null exactly when every text of the
\* title chain and every text of the company chain is empty; a returned
\* record holds the first non-empty text of each chain, 'Unknown Title' or
\* 'Unknown Company' standing in for a chain that is empty throughout, so
\* neither its title nor its company is empty.
C18_NullOnlyWhenBothMissing ==
    parse.pc = "detailed" =>
        LET titles    == titleChain(parse.doc)
            companies == companyChain(parse.doc)
        IN  /\ parse.out = << >>
               <=> /\ \A i \in DOMAIN titles : titles[i] = ""
                   /\ \A i \in DOMAIN companies : companies[i] = ""
            /\ parse.out # << >> =>
                   /\ parse.out[1].jobTitle = firstOr(titles, "Unknown Title")
                   /\ parse.out[1].companyName
                          = firstOr(companies, "Unknown Company")
                   /\ parse.out[1].jobTitle # ""
                   /\ parse.out[1].companyName # ""

\* No title anywhere, the company from the Open-Graph title: a record with
\* the sentinel title.
C18_Witness ==
    /\ parse.pc = "detailed"
    /\ parse.doc.orgNameLink = "" /\ parse.doc.subNavUrl = ""
    /\ parse.out # << >>
    /\ parse.out[1].jobTitle = "Unknown Title"
    /\ parse.out[1].companyName = "Acme"

\* Does the text hold an asterisk?
hasAsterisk(s) == indexOf(s, "*", 1) # 0

\* C21: no returned item holds an asterisk in its title, company,
\* location, posted time or job type.
C21_NoAsteriskInItems ==
    parse.pc = "extracted" =>
        \A i \in DOMAIN parse.out.jobs :
            LET job == parse.out.jobs[i]
            IN  /\ ~hasAsterisk(job.jobTitle)
                /\ ~hasAsterisk(job.companyName)
                /\ ~hasAsterisk(job.location)
                /\ ~hasAsterisk(job.postedTime)
                /\ ~hasAsterisk(job.jobType)

\* A job card with asterisks in all five texts was turned into an item.
C21_Witness ==
    /\ parse.pc = "extracted"
    /\ Len(parse.doc.cards) = 1
    /\ parse.doc.cards[1].primary
    /\ hasAsterisk(parse.doc.cards[1].titles[1])
    /\ hasAsterisk(parse.doc.cards[1].companies[1])
    /\ hasAsterisk(parse.doc.cards[1].location)
    /\ hasAsterisk(parse.doc.cards[1].listdate)
    /\ hasAsterisk(parse.doc.cards[1].jobType)
    /\ Len(parse.out.jobs) = 1
    /\ parse.out.jobs[1].location = "Oslo"

\* C22: the title and the company of a returned detail record are
\* outputs of cleanText (or the sentinels), whichever step of the fallback
\* chain supplied them.
C22_DetailFieldsAreCleaned ==
    (parse.pc = "detailed" /\ parse.out # << >>) =>
        /\ parse.out[1].jobTitle \in
               {cleanText(parse.doc.topcardTitle),
                cleanText(parse.doc.h1JobTitle),
                cleanText(stripLinkedInSuffix(parse.doc.title)),
                "Unknown Title"}
        /\ parse.out[1].companyName \in
               {cleanText(parse.doc.orgNameLink),
                cleanText(parse.doc.subNavUrl),
                cleanText(beforeHiring(orEmpty(parse.doc.ogTitle))),
                "Unknown Company"}

\* C24: the description of a returned detail record is the trimmed inner
\* markup of the first container, in priority order, that is present and
\* not empty, and is empty only when there is no such container.
C24_DescriptionFromFirstNonEmpty ==
    (parse.pc = "detailed" /\ parse.out # << >>) =>
        LET filled == {i \in DOMAIN parse.doc.containers :
                          /\ parse.doc.containers[i] # NULL
                          /\ trim(parse.doc.containers[i]) # ""}
        IN  parse.out[1].jobDescription =
                IF filled = {} THEN ""
                ELSE trim(parse.doc.containers[firstOf(filled)])

\* C23: when some job card yields an item, the result is exactly the items
\* of the first pass and the similar-jobs cards add nothing; an item that
\* only the similar-jobs pass can have made appears only in a result to
\* which the first pass gave nothing.
C23_FallbackAllOrNothing ==
    parse.pc = "extracted" =>
        LET valid   == SelectSeq(parse.doc.cards, validCard)
            similar == SelectSeq(parse.doc.cards, validSimilarCard)
            jobs    == parse.out.jobs
        IN  /\ valid # << >> =>
                   /\ Len(jobs) = Len(valid)
                   /\ \A i \in DOMAIN jobs : <<jobs[i]>> = searchCard(valid[i])
            /\ \A i \in DOMAIN jobs :
                   (\A j \in DOMAIN valid : <<jobs[i]>> # searchCard(valid[j]))
                   => /\ valid = << >>
                      /\ Len(jobs) = Len(similar)
                      /\ <<jobs[i]>> = similarCard(similar[i])

\* A job card that yields an item, then a similar-jobs card that would:
\* the result is the first card's item alone.
C23_Witness ==
    /\ parse.pc = "extracted"
    /\ Len(parse.doc.cards) = 2
    /\ validCard(parse.doc.cards[1])
    /\ ~parse.doc.cards[2].primary
    /\ validSimilarCard(parse.doc.cards[2])
    /\ parse.out.jobs = searchCard(parse.doc.cards[1])

\* C25: the rate limiter releases its callers in arrival order: no call
\* is released while a call that entered waitForRateLimit before it is
\* still waiting there (calls are numbered in arrival order).
C25_ReleasedInArrivalOrder ==
    [][\A a, b \in CallIds :
          (a < b /\ calls[a].pc = "rlSleep" /\ calls'[a].pc = "rlSleep")
          => ~ReleasedNow(b)]_vars

\* C26: a scrape(u) call made while the cache holds an entry for u that is
\* younger than CACHE_DURATION returns that entry's markup in the same
\* step, without entering the rate limiter, and leaves lastRequestTime,
\* pendingRequests, the cache and the browser handle as they were.
C26_CacheHitChangesNothing ==
    [][\A c \in CallIds :
        LET u == calls'[c].url
        IN  (/\ calls[c].pc = "init" /\ calls'[c].pc # "init"
             /\ MapHas(cache, u)
             /\ clock - MapGet(cache, u).timestamp < CACHE_DURATION
             /\ MapGet(cache, u).html # "")
            => /\ calls'[c].pc = "done"
               /\ calls'[c].result = Fulfilled(MapGet(cache, u).html)
               /\ calls'[c].wakeAt = 0
               /\ calls'[c].page = "none"
               /\ lastRequestTime' = lastRequestTime
               /\ pendingRequests' = pendingRequests
               /\ cache' = cache
               /\ browserInstance' = browserInstance
               /\ conn' = conn]_vars

\* A call was answered from the cache entry that an earlier fetch wrote,
\* a full interval after that fetch's release, and the handle of the
\* connection that fetch made is still in place.
C26_Witness ==
    \E c, d \in CallIds :
        /\ calls[c].mode = "cache" /\ calls[c].pc = "done"
        /\ calls[d].mode = "fetch" /\ calls[d].result.state = "fulfilled"
        /\ calls[c].result = calls[d].result
        /\ clock >= lastRequestTime + MIN_REQUEST_INTERVAL
        /\ browserInstance = d

\* C27: with scrape and clearCache calls interleaved in any way, no two
\* fetches of one URL are under way at the same time, and the pending
\* entry of a fetch under way disappears only in the step in which that
\* fetch completes.
C27_OneFetchPerUrlWithClear ==
    /\ [](\A c, d \in InFlight : calls[c].url = calls[d].url => c = d)
    /\ [][\A c \in CallIds :
            (/\ calls[c].mode = "fetch"
             /\ existingRequest(pendingRequests, calls[c].url) = c
             /\ existingRequest(pendingRequests', calls[c].url) # c)
            => (calls[c].pc # "done" /\ calls'[c].pc = "done")]_vars

\* C28: when a connection goes down while the handle refers to another
\* connection, the handle is left as it is.
C28_DisconnectClearsOwnHandleOnly ==
    [][\A k \in CallIds :
          (conn[k] = "live" /\ conn'[k] # "live" /\ browserInstance # k)
          => browserInstance' = browserInstance]_vars

\* C29: the pending entry of a fetch stays registered for as long as the
\* fetch is under way; when a fetch completes with markup, the cache
\* already holds that markup under its URL, fresh, in the state from which
\* the pending entry is removed; and a scrape(u) call starts a fetch only
\* when no fetch of u is under way and the cache holds no entry for u
\* younger than CACHE_DURATION.
C29_CachedBeforePendingRemoved ==
    /\ [](\A d \in InFlight :
            existingRequest(pendingRequests, calls[d].url) = d)
    /\ [][\A c \in CallIds :
            (/\ calls[c].mode = "fetch"
             /\ calls[c].pc # "done" /\ calls'[c].pc = "done"
             /\ calls'[c].outcome.state = "fulfilled")
            => /\ existingRequest(pendingRequests, calls[c].url) = c
               /\ existingRequest(pendingRequests', calls[c].url) = 0
               /\ MapHas(cache, calls[c].url)
               /\ MapGet(cache, calls[c].url).html = calls'[c].outcome.value
               /\ clock - MapGet(cache, calls[c].url).timestamp < CACHE_DURATION
               /\ cache' = cache]_vars
    /\ [][\A c \in CallIds :
            (calls[c].pc = "init" /\ calls'[c].mode = "fetch")
            => /\ \A d \in InFlight : calls[d].url # calls'[c].url
               /\ ~(/\ MapHas(cache, calls'[c].url)
                    /\ clock - MapGet(cache, calls'[c].url).timestamp
                           < CACHE_DURATION)]_vars

\* A call arrived between the cache write of a fetch of its URL and the
\* removal of that fetch's pending entry, and was answered from the cache.
C29_Witness ==
    \E c, d \in CallIds :
        /\ calls[c].mode = "fetch" /\ calls[c].pc = "closing"
        /\ existingRequest(pendingRequests, calls[c].url) = c
        /\ calls[d].url = calls[c].url
        /\ calls[d].mode = "cache" /\ calls[d].pc = "done"
        /\ calls[d].result = calls[c].ret

\* C30: provided timers fire and every browser operation returns or throws,
\* every scrape call that was made eventually settles and the pending-request
\* entry of every fetch is eventually removed: the calls of a behaviour being
\* finitely many, from some point on no call arrives any more, and from some
\* point on every call that was made has settled and the pending-request map
\* is empty, for good.
C30_EveryCallSettles ==
    <>[](/\ pendingRequests = << >>
         /\ \A c \in CallIds : calls[c].pc \in {"init", "done"})

C30_Witness ==
    /\ pendingRequests = << >>
    /\ \A c \in CallIds : calls[c].pc = "done" /\ calls[c].mode = "fetch"
    /\ lastRequestTime > Epoch

====
